---- MODULE Spec2Model ----
(***************************************************************************)
(* The specification algebra of mechanismaf/components.py:                 *)
(* scale_rotate_translate_coord, transform_spec, combine_specs,            *)
(* remove_duplicate_bars, set_style_ground and set_angle_sweep, acting on  *)
(* a heap of Python list and dict objects.                                 *)
(*                                                                         *)
(* A specification is a Python list of elements.  Every element is a list  *)
(* object (a bar ["bar", start, end] or ["bar", start, end, {...}], or an  *)
(* opaque entry such as ["name", "m"]), and an options dictionary is a     *)
(* dict object.  Lists and dicts are mutable and are shared by reference,  *)
(* so the model keeps object identities: elems[i] is the i-th list object, *)
(* dicts[d] the d-th dict object, specs[n] the n-th specification (a       *)
(* sequence of element identities).  madeFrom[n] is the set of             *)
(* specifications that were arguments of the call that returned            *)
(* specification n; last and pre record the last call and the heap it      *)
(* started from.                                                           *)
(*                                                                         *)
(* Coordinates are fixed-point numbers in units of 0.0001, so the point    *)
(* (1.0004, 1) is <<10004, 10000>>; rounding to `decimal` places rounds to *)
(* a multiple of 10^(4-decimal) units.  Rotations are multiples of 90      *)
(* degrees, where cos and sin are -1, 0 or 1 up to a float error far below *)
(* one unit.                                                               *)
(***************************************************************************)
EXTENDS Integers, Sequences, FiniteSets, TLC

VARIABLES specs, elems, dicts, madeFrom, last, pre, ops

vars == <<specs, elems, dicts, madeFrom, last, pre, ops>>

(* ---------------------------- bounds ----------------------------------- *)

\* Number of operations performed on the initial specification.
MaxOps == 3

(* ---------------------- program constants ------------------------------ *)

\* decimal=3, the default of round_coord, set_style_ground, set_angle_sweep
\* and remove_duplicate_bars.
DefaultDecimal == 3

(* ------------------------ numeric helpers ------------------------------ *)

RECURSIVE Pow10(_)
Pow10(n) == IF n = 0 THEN 1 ELSE 10 * Pow10(n - 1)

\* round(x, decimal) on a value held in units of 0.0001: the nearest
\* multiple of 10^(4-decimal); an exact tie goes to the even neighbour.
Round(x, decimal) ==
    LET q  == Pow10(4 - decimal)
        lo == (x \div q) * q
        r  == x - lo
    IN  IF 2 * r < q THEN lo
        ELSE IF 2 * r > q THEN lo + q
        ELSE IF (x \div q) % 2 = 0 THEN lo ELSE lo + q

\* round_coord(coord, decimal): both components rounded.
round_coord(coord, decimal) ==
    <<Round(coord[1], decimal), Round(coord[2], decimal)>>

\* math.cos / math.sin of math.radians(deg) for quarter turns.
Cos(deg) == CASE deg % 360 = 0   -> 1
              [] deg % 360 = 90  -> 0
              [] deg % 360 = 180 -> -1
              [] deg % 360 = 270 -> 0

Sin(deg) == CASE deg % 360 = 0   -> 0
              [] deg % 360 = 90  -> 1
              [] deg % 360 = 180 -> 0
              [] deg % 360 = 270 -> -1

\* A variant that translates before it rotates (rotation about `origin`
\* moved to the world origin), against which the order of the three steps is tested.
scale_rotate_translate_coord_TranslateFirst(coord, scale, rotation_deg, org) ==
    LET sx == coord[1] * scale + org[1]
        sy == coord[2] * scale + org[2]
    IN  <<sx * Cos(rotation_deg) - sy * Sin(rotation_deg),
          sx * Sin(rotation_deg) + sy * Cos(rotation_deg)>>

\* scale, then rotate about (0,0), then translate by `org`.
scale_rotate_translate_coord(coord, scale, rotation_deg, org) ==
    LET sx == coord[1] * scale
        sy == coord[2] * scale
        rx == sx * Cos(rotation_deg) - sy * Sin(rotation_deg)
        ry == sx * Sin(rotation_deg) + sy * Cos(rotation_deg)
    IN  <<rx + org[1], ry + org[2]>>

(* --------------------------- elements ---------------------------------- *)

\* element[0] == "bar"
IsBar(el) == el[1] = "bar"

\* isinstance(element[3], dict), for an element of length >= 4: the 4th
\* item is a reference into the dict heap.
IsDictRef(ds, x) == x \in DOMAIN ds

\* Lexicographic order of two points, as Python compares tuples.
PointLeq(p, q) == \/ p[1] < q[1]
                  \/ p[1] = q[1] /\ p[2] <= q[2]

\* A variant that does not sort the two endpoints.
OrderedNoSort(s, e) == <<s, e>>

\* tuple(sorted([s, e]))
Ordered(s, e) == IF PointLeq(s, e) THEN <<s, e>> ELSE <<e, s>>

\* The key remove_duplicate_bars puts in `seen` for a bar.
DedupKey(el, decimal) ==
    Ordered(round_coord(el[2], decimal), round_coord(el[3], decimal))

(* ------------------------- transform_spec ------------------------------ *)

\* The loop of transform_spec from element i on.  es is the list heap, out
\* the transformed_spec built so far.  A bar gets a fresh list object that
\* holds the new endpoints and, when present, the SAME options dict
\* (element[3] is stored, not copied); any other element is appended as the
\* same object.
RECURSIVE TransformLoop(_, _, _, _, _, _, _)
TransformLoop(es, spec, i, out, scale, org, rot) ==
    IF i > Len(spec) THEN [elems |-> es, spec |-> out]
    ELSE LET element == es[spec[i]] IN
         IF IsBar(element)
         THEN LET new_start == scale_rotate_translate_coord(element[2], scale, rot, org)
                  new_end   == scale_rotate_translate_coord(element[3], scale, rot, org)
                  transformed_element ==
                      IF Len(element) > 3
                      THEN <<"bar", new_start, new_end, element[4]>>
                      ELSE <<"bar", new_start, new_end>>
                  es2 == Append(es, transformed_element)
              IN  TransformLoop(es2, spec, i + 1, Append(out, Len(es2)),
                                scale, org, rot)
         ELSE TransformLoop(es, spec, i + 1, Append(out, spec[i]),
                            scale, org, rot)

\* A variant that forgets the options dictionary of a bar.
transform_spec_DropOptions(es, spec, scale, org, rot) ==
    LET r == TransformLoop(es, spec, 1, <<>>, scale, org, rot)
    IN  [elems |-> [k \in DOMAIN r.elems |->
                      IF k > Len(es) THEN SubSeq(r.elems[k], 1, 3)
                      ELSE r.elems[k]],
         spec  |-> r.spec]

transform_spec(es, spec, scale, org, rot) ==
    TransformLoop(es, spec, 1, <<>>, scale, org, rot)

(* ---------------------- remove_duplicate_bars -------------------------- *)

\* The loop of remove_duplicate_bars from element i on: a bar whose key is
\* already in `seen` is skipped, every other element is appended.
RECURSIVE DedupLoop(_, _, _, _, _, _)
DedupLoop(es, spec, i, seen, new_spec, decimal) ==
    IF i > Len(spec) THEN new_spec
    ELSE LET elem == es[spec[i]] IN
         IF IsBar(elem)
         THEN LET ordered == DedupKey(elem, decimal) IN
              IF ordered \in seen
              THEN DedupLoop(es, spec, i + 1, seen, new_spec, decimal)
              ELSE DedupLoop(es, spec, i + 1, seen \cup {ordered},
                             Append(new_spec, spec[i]), decimal)
         ELSE DedupLoop(es, spec, i + 1, seen, Append(new_spec, spec[i]), decimal)

\* A variant that keeps the LAST bar of every duplicate group.
RECURSIVE DedupLoopLast(_, _, _, _, _, _)
DedupLoopLast(es, spec, i, seen, new_spec, decimal) ==
    IF i < 1 THEN new_spec
    ELSE LET elem == es[spec[i]] IN
         IF IsBar(elem)
         THEN LET ordered == DedupKey(elem, decimal) IN
              IF ordered \in seen
              THEN DedupLoopLast(es, spec, i - 1, seen, new_spec, decimal)
              ELSE DedupLoopLast(es, spec, i - 1, seen \cup {ordered},
                                 <<spec[i]>> \o new_spec, decimal)
         ELSE DedupLoopLast(es, spec, i - 1, seen, <<spec[i]>> \o new_spec, decimal)

remove_duplicate_bars_LastWins(es, spec, decimal) ==
    DedupLoopLast(es, spec, Len(spec), {}, <<>>, decimal)

remove_duplicate_bars(es, spec, decimal) ==
    DedupLoop(es, spec, 1, {}, <<>>, decimal)

(* --------------------------- combine_specs ----------------------------- *)

\* The arguments of combine_specs: None, a specification, or a tuple whose
\* first item is a specification and whose second is solver output.
NoneArg      == [kind |-> "none",  first |-> 0, second |-> "-"]
SpecArg(n)   == [kind |-> "spec",  first |-> n, second |-> "-"]
TupleArg(n)  == [kind |-> "tuple", first |-> n, second |-> "mech"]

\* The loop of combine_specs: a tuple is replaced by its first item, None
\* is skipped, anything else extends combined_spec.
RECURSIVE ExtendLoop(_, _, _, _)
ExtendLoop(sp, args, i, combined_spec) ==
    IF i > Len(args) THEN combined_spec
    ELSE LET a == args[i] IN
         IF a.kind = "none"
         THEN ExtendLoop(sp, args, i + 1, combined_spec)
         ELSE ExtendLoop(sp, args, i + 1, combined_spec \o sp[a.first])

\* A variant that stops at the first None instead of skipping it.
RECURSIVE ExtendLoopStopAtNone(_, _, _, _)
ExtendLoopStopAtNone(sp, args, i, combined_spec) ==
    IF i > Len(args) THEN combined_spec
    ELSE LET a == args[i] IN
         IF a.kind = "none" THEN combined_spec
         ELSE ExtendLoopStopAtNone(sp, args, i + 1, combined_spec \o sp[a.first])

combine_specs_StopAtNone(sp, es, args) ==
    remove_duplicate_bars(es, ExtendLoopStopAtNone(sp, args, 1, <<>>), DefaultDecimal)

combine_specs(sp, es, args) ==
    remove_duplicate_bars(es, ExtendLoop(sp, args, 1, <<>>), DefaultDecimal)

(* ------------------- set_style_ground / set_angle_sweep ---------------- *)

\* d[k] = v on a dict value.
DictSet(d, k, v) == [x \in (DOMAIN d) \cup {k} |-> IF x = k THEN v ELSE d[x]]

\* (s == bar_start and e == bar_end) or (s == bar_end and e == bar_start)
Matches(element, bar_start, bar_end, decimal) ==
    LET s == round_coord(element[2], decimal)
        e == round_coord(element[3], decimal)
    IN  \/ s = bar_start /\ e = bar_end
        \/ s = bar_end /\ e = bar_start

\* A variant that appends a new dict to every matching element.
TagElementAlwaysAppend(es, ds, id, k, v) ==
    [elems |-> [es EXCEPT ![id] = Append(es[id], Len(ds) + 1)],
     dicts |-> Append(ds, DictSet(<<>>, k, v))]

\* A variant that replaces the options of a matching element by {k: v}.
TagElementReplace(es, ds, id, k, v) ==
    LET element == es[id] IN
    IF Len(element) < 4 \/ ~IsDictRef(ds, element[4])
    THEN [elems |-> [es EXCEPT ![id] = Append(element, Len(ds) + 1)],
          dicts |-> Append(ds, DictSet(<<>>, k, v))]
    ELSE [elems |-> es,
          dicts |-> [ds EXCEPT ![element[4]] = DictSet(<<>>, k, v)]]

\* The branch taken for a matching element, for the key/value a tagging
\* operation writes: append a new dict {k: v} to the element when it has no
\* dict as 4th item, else store v under k in the dict it has.
TagElement(es, ds, id, k, v) ==
    LET element == es[id] IN
    IF Len(element) < 4 \/ ~IsDictRef(ds, element[4])
    THEN [elems |-> [es EXCEPT ![id] = Append(element, Len(ds) + 1)],
          dicts |-> Append(ds, DictSet(<<>>, k, v))]
    ELSE [elems |-> es,
          dicts |-> [ds EXCEPT ![element[4]] = DictSet(@, k, v)]]

\* A variant of the inner loop that stops at the first matching bar.
RECURSIVE TagInnerFirstOnly(_, _, _, _, _, _, _, _, _)
TagInnerFirstOnly(es, ds, spec, i, bar_start, bar_end, k, v, decimal) ==
    IF i > Len(spec) THEN [elems |-> es, dicts |-> ds]
    ELSE LET element == es[spec[i]] IN
         IF IsBar(element) /\ Matches(element, bar_start, bar_end, decimal)
         THEN TagElement(es, ds, spec[i], k, v)
         ELSE TagInnerFirstOnly(es, ds, spec, i + 1, bar_start, bar_end, k, v, decimal)

\* The inner loop (for element in spec) for one queried pair, from index i.
RECURSIVE TagInner(_, _, _, _, _, _, _, _, _)
TagInner(es, ds, spec, i, bar_start, bar_end, k, v, decimal) ==
    IF i > Len(spec) THEN [elems |-> es, dicts |-> ds]
    ELSE LET element == es[spec[i]] IN
         IF ~IsBar(element)
         THEN TagInner(es, ds, spec, i + 1, bar_start, bar_end, k, v, decimal)
         ELSE IF Matches(element, bar_start, bar_end, decimal)
              THEN LET h == TagElement(es, ds, spec[i], k, v)
                   IN  TagInner(h.elems, h.dicts, spec, i + 1,
                                bar_start, bar_end, k, v, decimal)
              ELSE TagInner(es, ds, spec, i + 1, bar_start, bar_end, k, v, decimal)

\* The outer loop of set_style_ground over bar_list, from pair j on.
RECURSIVE GroundLoop(_, _, _, _, _, _)
GroundLoop(es, ds, spec, bar_list, j, decimal) ==
    IF j > Len(bar_list) THEN [elems |-> es, dicts |-> ds]
    ELSE LET bar_start == round_coord(bar_list[j][1], decimal)
             bar_end   == round_coord(bar_list[j][2], decimal)
             h == TagInner(es, ds, spec, 1, bar_start, bar_end,
                           "style", "ground", decimal)
         IN  GroundLoop(h.elems, h.dicts, spec, bar_list, j + 1, decimal)

set_style_ground(es, ds, spec, bar_list, decimal) ==
    GroundLoop(es, ds, spec, bar_list, 1, decimal)

\* The outer loop of set_angle_sweep over bar_sweep_dict.items(), from item
\* j on; an item is [key |-> <<start, end>>, val |-> sweep_tuple].
RECURSIVE SweepLoop(_, _, _, _, _, _)
SweepLoop(es, ds, spec, items, j, decimal) ==
    IF j > Len(items) THEN [elems |-> es, dicts |-> ds]
    ELSE LET bar_start == round_coord(items[j].key[1], decimal)
             bar_end   == round_coord(items[j].key[2], decimal)
             h == TagInner(es, ds, spec, 1, bar_start, bar_end,
                           "angle_sweep", items[j].val, decimal)
         IN  SweepLoop(h.elems, h.dicts, spec, items, j + 1, decimal)

set_angle_sweep(es, ds, spec, items, decimal) ==
    SweepLoop(es, ds, spec, items, 1, decimal)

(* ------------------------------ inputs --------------------------------- *)

\* Points, in units of 0.0001.
PA  == <<0, 0>>
PB  == <<10000, 10000>>
PBn == <<10004, 10000>>      \* (1.0004, 1): B with float noise
PC  == <<10000, 0>>

\* Literal elements as a caller writes them; opts is the options dict of a
\* 4-element bar.
LitName == [tag |-> "name", hasOpts |-> FALSE]
LitBar(s, e) == [tag |-> "bar", start |-> s, end |-> e, hasOpts |-> FALSE]
LitBarOpts(s, e, d) ==
    [tag |-> "bar", start |-> s, end |-> e, hasOpts |-> TRUE, opts |-> d]

\* The literal specifications the caller starts from.
InitSpecs ==
    { <<LitName, LitBarOpts(PA, PB, [style |-> "ground"]), LitBar(PBn, PA),
        LitBarOpts(PB, PC, [angle_sweep |-> <<0, 0, 1>>, color |-> "red"])>>,
      <<LitBar(PB, PA), LitBarOpts(PA, PB, [color |-> "red"])>> }

\* The list objects and dict objects of a literal specification: element i
\* of the literal is list object i, and the dicts are numbered in order.
DictIndex(lit, i) == Cardinality({k \in 1..i : lit[k].hasOpts})

LitElems(lit) ==
    [i \in 1..Len(lit) |->
        IF lit[i].tag = "bar"
        THEN IF lit[i].hasOpts
             THEN <<"bar", lit[i].start, lit[i].end, DictIndex(lit, i)>>
             ELSE <<"bar", lit[i].start, lit[i].end>>
        ELSE <<"name", "m">>]

LitDicts(lit) ==
    [d \in 1..DictIndex(lit, Len(lit)) |->
        lit[CHOOSE i \in 1..Len(lit) : lit[i].hasOpts /\ DictIndex(lit, i) = d].opts]

\* Arguments of transform_spec: (scale, origin, rotation_deg).
TransformArgs ==
    { <<1, <<0, 0>>, 0>>,                 \* the identity
      <<1, <<50000, 50000>>, 0>>,         \* a translation by (5,5)
      <<2, <<50000, 50000>>, 90>>,
      <<1, <<0, 0>>, 180>> }

\* Queried endpoint pairs.
QAB  == <<PA, PB>>
QBnA == <<PBn, PA>>                              \* reversed, with noise
QBC  == <<PB, PC>>
QT   == <<<<50000, 50000>>, <<60000, 60000>>>>   \* A-B moved by (5,5)
QNo  == <<<<90000, 90000>>, <<80000, 80000>>>>   \* matches nothing

\* Arguments of set_style_ground: bar_list and decimal.
GroundArgs ==
    { [bar_list |-> <<QAB>>, decimal |-> 3],
      [bar_list |-> <<QBnA, QT>>, decimal |-> 2],
      [bar_list |-> <<QNo, QBC>>, decimal |-> 3] }

Sweep1 == <<0, 0, 1>>
Sweep2 == <<0, 90, 10>>

\* Arguments of set_angle_sweep: the items of bar_sweep_dict in iteration
\* order, and decimal.
SweepArgs ==
    { [items |-> <<[key |-> QAB, val |-> Sweep1]>>, decimal |-> 3],
      [items |-> <<[key |-> QAB, val |-> Sweep1], [key |-> QBnA, val |-> Sweep2]>>,
       decimal |-> 3],
      [items |-> <<[key |-> QT, val |-> Sweep2], [key |-> QNo, val |-> Sweep1],
                   [key |-> QBC, val |-> Sweep2]>>, decimal |-> 2] }

\* Argument lists of combine_specs over the specifications that exist.
ArgLists ==
    LET N == 1..Len(specs) IN
         {<<SpecArg(i)>> : i \in N}
    \cup {<<TupleArg(i), NoneArg>> : i \in N}
    \cup {<<SpecArg(i), SpecArg(j)>> : i \in N, j \in N}
    \cup {<<NoneArg, SpecArg(i), TupleArg(j)>> : i \in N, j \in N}

(* ------------------------------ state ---------------------------------- *)

Snapshot == [specs |-> specs, elems |-> elems, dicts |-> dicts]

Init ==
    \E lit \in InitSpecs :
        /\ specs  = <<[i \in 1..Len(lit) |-> i]>>
        /\ elems  = LitElems(lit)
        /\ dicts  = LitDicts(lit)
        /\ madeFrom = <<{}>>
        /\ last   = [op |-> "init"]
        /\ pre    = [specs |-> specs, elems |-> elems, dicts |-> dicts]
        /\ ops    = 0

\* new = transform_spec(specs[n], scale, org, rot)
Transform(n, scale, org, rot) ==
    /\ ops < MaxOps
    /\ LET r == transform_spec(elems, specs[n], scale, org, rot) IN
        /\ specs' = Append(specs, r.spec)
        /\ elems' = r.elems
    /\ dicts'  = dicts
    /\ madeFrom' = Append(madeFrom, {n})
    /\ last'   = [op |-> "transform", spec |-> Len(specs) + 1, src |-> n,
                  scale |-> scale, org |-> org, rot |-> rot]
    /\ pre'    = Snapshot
    /\ ops'    = ops + 1

\* new = combine_specs(*args)
Combine(args) ==
    /\ ops < MaxOps
    /\ specs'  = Append(specs, combine_specs(specs, elems, args))
    /\ elems'  = elems
    /\ dicts'  = dicts
    /\ madeFrom' = Append(madeFrom, {args[i].first : i \in {k \in 1..Len(args) :
                                                        args[k].kind # "none"}})
    /\ last'   = [op |-> "combine", spec |-> Len(specs) + 1, args |-> args]
    /\ pre'    = Snapshot
    /\ ops'    = ops + 1

\* set_style_ground(specs[n], bar_list, decimal)
SetStyleGround(n, bar_list, decimal) ==
    /\ ops < MaxOps
    /\ LET h == set_style_ground(elems, dicts, specs[n], bar_list, decimal) IN
        /\ elems' = h.elems
        /\ dicts' = h.dicts
    /\ specs'  = specs
    /\ madeFrom' = madeFrom
    /\ last'   = [op |-> "ground", spec |-> n, bar_list |-> bar_list,
                  decimal |-> decimal]
    /\ pre'    = Snapshot
    /\ ops'    = ops + 1

\* set_angle_sweep(specs[n], bar_sweep_dict, decimal)
SetAngleSweep(n, items, decimal) ==
    /\ ops < MaxOps
    /\ LET h == set_angle_sweep(elems, dicts, specs[n], items, decimal) IN
        /\ elems' = h.elems
        /\ dicts' = h.dicts
    /\ specs'  = specs
    /\ madeFrom' = madeFrom
    /\ last'   = [op |-> "sweep", spec |-> n, items |-> items,
                  decimal |-> decimal]
    /\ pre'    = Snapshot
    /\ ops'    = ops + 1

Next ==
    \/ \E n \in 1..Len(specs), t \in TransformArgs : Transform(n, t[1], t[2], t[3])
    \/ \E args \in ArgLists : Combine(args)
    \/ \E n \in 1..Len(specs), g \in GroundArgs :
          SetStyleGround(n, g.bar_list, g.decimal)
    \/ \E n \in 1..Len(specs), a \in SweepArgs :
          SetAngleSweep(n, a.items, a.decimal)

Spec == Init /\ [][Next]_vars

(* ------------------------ views used by the claims --------------------- *)

\* The contents of list object id in heap (es, ds): its items, with the
\* options dictionary given by value.
ElemValue(es, ds, id) ==
    [k \in 1..Len(es[id]) |->
        IF IsBar(es[id]) /\ k >= 4 THEN ds[es[id][k]] ELSE es[id][k]]

\* The contents of a specification.
SpecValue(sp, es, ds, n) ==
    [i \in 1..Len(sp[n]) |-> ElemValue(es, ds, sp[n][i])]

\* The unordered pair of rounded endpoints of a bar, and of a queried pair.
EndpointSet(el, decimal) ==
    {round_coord(el[2], decimal), round_coord(el[3], decimal)}

QuerySet(q, decimal) == {round_coord(q[1], decimal), round_coord(q[2], decimal)}

\* The options of a bar by value; a 3-element bar has none.
HasOpts(es, id) == Len(es[id]) >= 4

OptsOf(es, ds, id) == IF HasOpts(es, id) THEN ds[es[id][4]] ELSE <<>>

Tagging == last.op \in {"ground", "sweep"}

\* The specification the last operation produced or tagged.
Cur == specs[last.spec]

(* ------------------------- combine_specs claims ------------------------ *)

\* The concatenation the last combine_specs call deduplicated.
Cat == ExtendLoop(pre.specs, last.args, 1, <<>>)

CatBar(i) == IsBar(pre.elems[Cat[i]])

\* Position i of the concatenation holds a bar that has an earlier bar with
\* the same unordered pair of endpoints rounded to 3 decimals.
LaterDuplicate(i) ==
    /\ CatBar(i)
    /\ \E j \in 1..(i - 1) :
          /\ CatBar(j)
          /\ EndpointSet(pre.elems[Cat[j]], DefaultDecimal)
               = EndpointSet(pre.elems[Cat[i]], DefaultDecimal)

KeptPositions == {i \in 1..Len(Cat) : ~LaterDuplicate(i)}

\* C1: combine_specs drops a bar if and only if an earlier bar of the
\* concatenated sequence has the same unordered pair of endpoints after
\* rounding to 3 decimals: the result holds exactly the elements at the
\* positions that are not later duplicates, as many elements as there are
\* such positions, and no two of its bars have the same unordered rounded
\* endpoint pair.
C1_DedupIff ==
    last.op = "combine" =>
        /\ Len(Cur) = Cardinality(KeptPositions)
        /\ {Cur[i] : i \in 1..Len(Cur)} = {Cat[i] : i \in KeptPositions}
        /\ \A i \in 1..Len(Cur), j \in 1..Len(Cur) :
              ( /\ i < j
                /\ IsBar(elems[Cur[i]])
                /\ IsBar(elems[Cur[j]]) )
              => EndpointSet(elems[Cur[i]], DefaultDecimal)
                   # EndpointSet(elems[Cur[j]], DefaultDecimal)

\* A combine_specs call that met a bar (A,B) and a later bar (B,A) with the
\* endpoints in the other order, and kept one of them.
C1_Witness ==
    /\ last.op = "combine"
    /\ \E i \in 1..Len(Cat), j \in 1..Len(Cat) :
          /\ i < j /\ CatBar(i) /\ CatBar(j)
          /\ round_coord(pre.elems[Cat[i]][2], DefaultDecimal)
               = round_coord(pre.elems[Cat[j]][3], DefaultDecimal)
          /\ round_coord(pre.elems[Cat[i]][3], DefaultDecimal)
               = round_coord(pre.elems[Cat[j]][2], DefaultDecimal)
          /\ pre.elems[Cat[i]][2] # pre.elems[Cat[i]][3]
          /\ Cardinality({k \in 1..Len(Cur) :
                 /\ IsBar(elems[Cur[k]])
                 /\ EndpointSet(elems[Cur[k]], DefaultDecimal)
                      = EndpointSet(pre.elems[Cat[i]], DefaultDecimal)}) = 1

\* The elements of seq at the positions in P, in order.
RECURSIVE SelectPositions(_, _, _)
SelectPositions(seq, P, i) ==
    IF i > Len(seq) THEN <<>>
    ELSE IF i \in P THEN <<seq[i]>> \o SelectPositions(seq, P, i + 1)
         ELSE SelectPositions(seq, P, i + 1)

\* C2: combine_specs is first-wins and order-preserving: the result is the
\* concatenation of the arguments with only the later duplicates removed,
\* every survivor (bar or not) is the first occurrence itself, in place, and
\* no element or attribute map is changed by the call.
C2_FirstWins ==
    last.op = "combine" =>
        /\ Cur = SelectPositions(Cat, KeptPositions, 1)
        /\ \A i \in 1..Len(Cur) :
              ElemValue(elems, dicts, Cur[i]) = ElemValue(pre.elems, pre.dicts, Cur[i])

\* A combine_specs call that met a ground-tagged bar followed by an untagged
\* duplicate with the endpoints reversed; the ground-tagged bar survived.
C2_Witness ==
    /\ last.op = "combine"
    /\ \E i \in 1..Len(Cat), j \in 1..Len(Cat) :
          /\ i < j /\ CatBar(i) /\ CatBar(j)
          /\ Cat[i] # Cat[j]
          /\ EndpointSet(pre.elems[Cat[i]], DefaultDecimal)
               = EndpointSet(pre.elems[Cat[j]], DefaultDecimal)
          /\ HasOpts(pre.elems, Cat[i])
          /\ "style" \in DOMAIN OptsOf(pre.elems, pre.dicts, Cat[i])
          /\ ~HasOpts(pre.elems, Cat[j])
          /\ \E k \in 1..Len(Cur) : Cur[k] = Cat[i]
          /\ \A k \in 1..Len(Cur) : Cur[k] # Cat[j]

\* The specifications named by the arguments that are not None, a tuple
\* standing for its first item.
RECURSIVE FirstItems(_)
FirstItems(args) ==
    IF args = <<>> THEN <<>>
    ELSE IF Head(args).kind = "none" THEN FirstItems(Tail(args))
         ELSE <<Head(args).first>> \o FirstItems(Tail(args))

RECURSIVE Flatten(_, _)
Flatten(sp, ns) ==
    IF ns = <<>> THEN <<>> ELSE sp[Head(ns)] \o Flatten(sp, Tail(ns))

\* args with a None inserted after position p.
InsertNone(args, p) ==
    SubSeq(args, 1, p) \o <<NoneArg>> \o SubSeq(args, p + 1, Len(args))

IsNotNone(a) == a.kind # "none"

\* C7: combine_specs skips None and uses only the first item of a tuple:
\* the result is the deduplicated concatenation of the remaining
\* specifications in argument order, and it is the result of the same call
\* with every None removed or with a None added at any position.
C7_NoneAndTuple ==
    last.op = "combine" =>
        /\ Cur = remove_duplicate_bars(pre.elems,
                     Flatten(pre.specs, FirstItems(last.args)), DefaultDecimal)
        /\ Cur = combine_specs(pre.specs, pre.elems, SelectSeq(last.args, IsNotNone))
        /\ \A p \in 0..Len(last.args) :
              Cur = combine_specs(pre.specs, pre.elems, InsertNone(last.args, p))

\* A combine_specs call with a None argument and a tuple argument whose
\* specification is not empty.
C7_Witness ==
    /\ last.op = "combine"
    /\ \E i \in 1..Len(last.args) : last.args[i].kind = "none"
    /\ \E i \in 1..Len(last.args) :
          /\ last.args[i].kind = "tuple"
          /\ last.args[i].second = "mech"
          /\ pre.specs[last.args[i].first] # <<>>
    /\ Cur # <<>>

(* ------------------------ transform_spec claims ------------------------ *)

\* The specification the last transform_spec call read.
Src == pre.specs[last.src]

\* C5: transform_spec is index-stable and touches only bar endpoints: the
\* output is as long as the input; a non-bar element is the unchanged input
\* element; a bar is a bar with the transformed endpoints, the same form
\* (3 or 4 items) and the same attribute map contents; and the input
\* specification is not mutated.
C5_TransformIndexStable ==
    last.op = "transform" =>
        /\ Len(Cur) = Len(Src)
        /\ \A i \in 1..Len(Src) :
              LET old == pre.elems[Src[i]]
                  new == elems[Cur[i]]
              IN  IF IsBar(old)
                  THEN /\ IsBar(new)
                       /\ new[2] = scale_rotate_translate_coord(
                                      old[2], last.scale, last.rot, last.org)
                       /\ new[3] = scale_rotate_translate_coord(
                                      old[3], last.scale, last.rot, last.org)
                       /\ Len(new) = Len(old)
                       /\ OptsOf(elems, dicts, Cur[i])
                            = OptsOf(pre.elems, pre.dicts, Src[i])
                  ELSE /\ Cur[i] = Src[i]
                       /\ new = old
        /\ specs[last.src] = Src
        /\ SpecValue(specs, elems, dicts, last.src)
             = SpecValue(pre.specs, pre.elems, pre.dicts, last.src)

\* A transform_spec call that moved the endpoints of a specification holding
\* a non-bar element, a 3-element bar and a 4-element bar.
C5_Witness ==
    /\ last.op = "transform"
    /\ \E i \in 1..Len(Src) : ~IsBar(pre.elems[Src[i]])
    /\ \E i \in 1..Len(Src) :
          /\ IsBar(pre.elems[Src[i]]) /\ Len(pre.elems[Src[i]]) = 3
          /\ elems[Cur[i]][2] # pre.elems[Src[i]][2]
    /\ \E i \in 1..Len(Src) :
          /\ IsBar(pre.elems[Src[i]]) /\ Len(pre.elems[Src[i]]) = 4
          /\ elems[Cur[i]][3] # pre.elems[Src[i]][3]

\* scale, rotation about (0,0) and translation written out for the quarter
\* turns: (s*x*cos(t) - s*y*sin(t) + ox, s*x*sin(t) + s*y*cos(t) + oy).
Expected(p, scale, rot, org) ==
    CASE rot % 360 = 0   -> <<scale * p[1] + org[1], scale * p[2] + org[2]>>
      [] rot % 360 = 90  -> <<org[1] - scale * p[2], scale * p[1] + org[2]>>
      [] rot % 360 = 180 -> <<org[1] - scale * p[1], org[2] - scale * p[2]>>
      [] rot % 360 = 270 -> <<scale * p[2] + org[1], org[2] - scale * p[1]>>

\* C6: scale_rotate_translate_coord scales, then rotates about the world
\* origin (0,0), then translates by `origin`: every endpoint transform_spec
\* computed is (s*x*cos(t) - s*y*sin(t) + ox, s*x*sin(t) + s*y*cos(t) + oy);
\* (1,0) under scale 2, rotation 90, origin (5,5) is (5,7), and scale 1,
\* rotation 0, origin (0,0) returns the point.
C6_ScaleRotateTranslate ==
    last.op = "transform" =>
        \A i \in 1..Len(Src) : \A k \in {2, 3} :
            IsBar(pre.elems[Src[i]]) =>
                LET p == pre.elems[Src[i]][k]
                    r == elems[Cur[i]][k]
                IN  /\ r = Expected(p, last.scale, last.rot, last.org)
                    /\ ( /\ p = <<10000, 0>> /\ last.scale = 2 /\ last.rot = 90
                         /\ last.org = <<50000, 50000>> )
                       => r = <<50000, 70000>>
                    /\ ( last.scale = 1 /\ last.rot = 0 /\ last.org = <<0, 0>> )
                       => r = p

\* transform_spec with scale 2, rotation 90 and origin (5,5) moved the
\* endpoint (1,0) to (5,7).
C6_Witness ==
    /\ last.op = "transform"
    /\ last.scale = 2 /\ last.rot = 90 /\ last.org = <<50000, 50000>>
    /\ \E i \in 1..Len(Src) :
          /\ IsBar(pre.elems[Src[i]])
          /\ pre.elems[Src[i]][3] = <<10000, 0>>
          /\ elems[Cur[i]][3] = <<50000, 70000>>

(* --------------- set_style_ground / set_angle_sweep claims ------------- *)

\* The queried pairs of the last tagging call in the order they were
\* processed, each with the attribute key and the value it asks for.
Queries ==
    IF last.op = "ground"
    THEN [j \in 1..Len(last.bar_list) |->
             [pair |-> last.bar_list[j], k |-> "style", val |-> "ground"]]
    ELSE [j \in 1..Len(last.items) |->
             [pair |-> last.items[j].key, k |-> "angle_sweep",
              val |-> last.items[j].val]]

\* Position i of the tagged specification holds a bar whose endpoints,
\* rounded to `decimal` places, are queried pair j in either order.
MatchesQuery(i, j) ==
    /\ IsBar(pre.elems[Cur[i]])
    /\ EndpointSet(pre.elems[Cur[i]], last.decimal)
         = QuerySet(Queries[j].pair, last.decimal)

Matched(i) == \E j \in 1..Len(Queries) : MatchesQuery(i, j)

\* C3 as stated: for each queried pair, every bar matching it ends in
\* 4-element form with style = "ground", respectively with angle_sweep = the
\* tuple given for that pair.
C3_EveryMatchHasItsPairValue ==
    Tagging =>
        \A j \in 1..Len(Queries) : \A i \in 1..Len(Cur) :
            MatchesQuery(i, j) =>
                /\ Len(elems[Cur[i]]) = 4
                /\ Queries[j].k \in DOMAIN OptsOf(elems, dicts, Cur[i])
                /\ OptsOf(elems, dicts, Cur[i])[Queries[j].k] = Queries[j].val

\* The pairs that wrote into the attribute map position i ends with: those
\* matching the bar at i or another bar of the specification that holds the
\* same dict object.
WritersOf(i) ==
    {j \in 1..Len(Queries) :
        \E m \in 1..Len(Cur) :
            /\ MatchesQuery(m, j)
            /\ Len(elems[Cur[m]]) >= 4
            /\ elems[Cur[m]][4] = elems[Cur[i]][4]}

LastOf(S) == CHOOSE j \in S : \A m \in S : m <= j

\* C3 (amended): the tagging operations tag every matching bar, not just
\* the first: every bar matching some queried pair ends in 4-element form
\* (an attribute map is created when it had none) with style = "ground",
\* respectively with an angle_sweep entry; the value is the one given for
\* the last pair, in processing order, that matches the bar or a bar of the
\* specification sharing its attribute map.
C3_EveryMatchTagged ==
    Tagging =>
        \A i \in 1..Len(Cur) :
            Matched(i) =>
                /\ Len(elems[Cur[i]]) = 4
                /\ elems[Cur[i]][4] \in DOMAIN dicts
                /\ Queries[1].k \in DOMAIN OptsOf(elems, dicts, Cur[i])
                /\ OptsOf(elems, dicts, Cur[i])[Queries[1].k]
                     = Queries[LastOf(WritersOf(i))].val
                /\ last.op = "ground"
                     => OptsOf(elems, dicts, Cur[i])["style"] = "ground"

\* A set_angle_sweep call with a pair that matches two bars, one of them a
\* 3-element bar that is not the first match; both ended with the tuple.
C3_Witness ==
    /\ last.op = "sweep"
    /\ \E j \in 1..Len(Queries) : \E i1 \in 1..Len(Cur), i2 \in 1..Len(Cur) :
          /\ i1 < i2
          /\ MatchesQuery(i1, j) /\ MatchesQuery(i2, j)
          /\ Len(pre.elems[Cur[i2]]) = 3
          /\ Len(elems[Cur[i2]]) = 4
          /\ OptsOf(elems, dicts, Cur[i1])["angle_sweep"] = Queries[j].val
          /\ OptsOf(elems, dicts, Cur[i2])["angle_sweep"] = Queries[j].val

\* C4 as stated: a tagging call changes neither the number nor the order of
\* the elements, and leaves every non-bar element and every bar matching
\* none of the queried pairs unchanged (so a call whose pairs match nothing
\* leaves the specification unchanged).
C4_UnmatchedUnchanged ==
    Tagging =>
        /\ specs = pre.specs
        /\ \A i \in 1..Len(Cur) :
              ~Matched(i) =>
                  ElemValue(elems, dicts, Cur[i])
                    = ElemValue(pre.elems, pre.dicts, Cur[i])

\* C8 as stated: tagging a specification returned by transform_spec or
\* combine_specs leaves the contents of the specifications it was made
\* from as they were.
C8_InputsUntouched ==
    Tagging =>
        \A n \in madeFrom[last.spec] :
            SpecValue(specs, elems, dicts, n)
              = SpecValue(pre.specs, pre.elems, pre.dicts, n)

\* d without the keys in K.
Without(d, K) == [k \in (DOMAIN d) \ K |-> d[k]]

\* The key the last tagging call writes.
TagKey == IF last.op = "ground" THEN "style" ELSE "angle_sweep"

\* C9: attribute keys other than the one an operation writes are preserved
\* verbatim: transform_spec and combine_specs change no key of any
\* attribute map and every bar of their result carries the keys and values
\* of the bar it comes from; set_style_ground changes no key other than
\* style and set_angle_sweep no key other than angle_sweep, in any attribute
\* map and on any bar.
C9_KeysPreserved ==
    /\ last.op \in {"transform", "combine"} => dicts = pre.dicts
    /\ last.op = "transform" =>
          \A i \in 1..Len(Src) :
              IsBar(pre.elems[Src[i]]) =>
                  OptsOf(elems, dicts, Cur[i]) = OptsOf(pre.elems, pre.dicts, Src[i])
    /\ last.op = "combine" =>
          \A i \in 1..Len(Cur) :
              /\ \E m \in 1..Len(Cat) : Cat[m] = Cur[i]
              /\ IsBar(elems[Cur[i]]) =>
                    OptsOf(elems, dicts, Cur[i]) = OptsOf(pre.elems, pre.dicts, Cur[i])
    /\ Tagging =>
          /\ \A d \in DOMAIN pre.dicts :
                Without(dicts[d], {TagKey}) = Without(pre.dicts[d], {TagKey})
          /\ \A id \in DOMAIN pre.elems :
                IsBar(pre.elems[id]) =>
                    Without(OptsOf(elems, dicts, id), {TagKey})
                      = Without(OptsOf(pre.elems, pre.dicts, id), {TagKey})

\* A tagging call wrote its key into an attribute map that already held the
\* other recognized key and an unrecognized one; the bar carries all three.
C9_Witness ==
    /\ Tagging
    /\ \E i \in 1..Len(Cur) :
          /\ Matched(i)
          /\ HasOpts(pre.elems, Cur[i])
          /\ TagKey \notin DOMAIN OptsOf(pre.elems, pre.dicts, Cur[i])
          /\ DOMAIN OptsOf(elems, dicts, Cur[i]) = {"style", "angle_sweep", "color"}
          /\ OptsOf(elems, dicts, Cur[i])["color"] = "red"

\* C10: every bar is ["bar", start, end] or ["bar", start, end, dict]:
\* never a 5th item, never a second attribute map.
C10_WellFormed ==
    \A id \in DOMAIN elems :
        IsBar(elems[id]) =>
            /\ Len(elems[id]) \in {3, 4}
            /\ Len(elems[id]) = 4 => elems[id][4] \in DOMAIN dicts

\* A tagging call in which two queried pairs matched the same bar, a bar
\* that had no attribute map before the call and has one after it.
C10_Witness ==
    /\ Tagging
    /\ \E i \in 1..Len(Cur) : \E j1 \in 1..Len(Queries), j2 \in 1..Len(Queries) :
          /\ j1 # j2
          /\ MatchesQuery(i, j1) /\ MatchesQuery(i, j2)
          /\ Len(pre.elems[Cur[i]]) = 3
          /\ Len(elems[Cur[i]]) = 4
====
